---- MODULE Spec2Model ----
(***************************************************************************)
(* Model of report.py: the Streamlit maintenance-report script.            *)
(*                                                                         *)
(*   generate_report  (lines 14-38)   one call to the Gemini backend       *)
(*   save_to_excel    (lines 41-106)  read - concat - rewrite - restyle    *)
(*   load_reports     (lines 109-113) read the workbook for display        *)
(*   the script body  (lines 129-143) validation, generate, save, reload   *)
(*                                                                         *)
(* The backing file generated_reports.xlsx is the only persistent state.   *)
(* A workbook is modelled by its header and its rows of cell texts; a data *)
(* frame by its columns and its rows of values, where a value is a text or *)
(* NaN.  pandas' read_excel and to_excel convert between the two.          *)
(***************************************************************************)
EXTENDS Integers, Sequences, FiniteSets, TLC

VARIABLES
    file,       \* generated_reports.xlsx on disk
    clock,      \* number of pd.Timestamp.now() readings so far
    last,       \* what the last script run did (inputs, calls, outcome)
    df,         \* df_reports of the last script run (line 142)
    fresh,      \* the file was absent at start and every save since completed
    appended,   \* while fresh: the records passed to save_to_excel, in order
    pc,         \* per concurrent save_to_excel invocation: the next step
    rec,        \* per invocation: its arguments
    upd,        \* per invocation: its updated_data
    wb,         \* per invocation: the workbook load_workbook returned
    early,      \* per invocation: it read before any invocation began rewriting
    clobbered   \* per invocation: another wrote the file while it held it open

vars == <<file, clock, last, df, fresh, appended, pc, rec, upd, wb, early, clobbered>>
seqVars == <<clock, last, df, fresh, appended>>
concVars == <<pc, rec, upd, wb, early, clobbered>>

\* Bound of the model: the script runs that reach save_to_excel.
MaxSaves == 2

\* the two sessions whose save_to_excel calls overlap
Procs == {1, 2}

(***************************************************************************)
(* Values                                                                  *)
(***************************************************************************)
Range(s) == {s[i] : i \in DOMAIN s}

IndexOf(s, c) == CHOOSE i \in DOMAIN s : s[i] = c

\* columns (line 44)
Header == <<"Date", "Unit", "Machine", "Technician Name", "Issue", "Generated Report">>

\* the columns of the empty frame load_reports returns (line 113)
EmptyReportsHeader == <<"Unit", "Machine", "Technician", "Issue", "Report">>

\* float('nan'): what pandas holds for a missing value
NaN == "float(nan)"

\* The texts pandas' read_excel turns into NaN (keep_default_na=True, the
\* default of the calls at lines 57 and 112).
NAValues ==
    {"", "#N/A", "#N/A N/A", "#NA", "-1.#IND", "-1.#QNAN", "-NaN", "-nan",
     "1.#IND", "1.#QNAN", "<NA>", "N/A", "NA", "NULL", "NaN", "None", "n/a",
     "nan", "null"}

Frame(cols, rows) == [cols |-> cols, rows |-> rows]

Absent == [kind |-> "absent", cols |-> <<>>, rows |-> <<>>, styled |-> FALSE]

\* a file that exists and is not a readable workbook (truncated, wrong format)
Corrupt == [kind |-> "corrupt", cols |-> <<>>, rows |-> <<>>, styled |-> FALSE]

Workbook(cols, rows, styled) ==
    [kind |-> "table", cols |-> cols, rows |-> rows, styled |-> styled]

\* os.path.exists(EXCEL_FILE) (lines 55, 111)
Exists(f) == f.kind # "absent"

(***************************************************************************)
(* pandas: read_excel, column selection, concat, to_excel                  *)
(***************************************************************************)
ParseCell(c) == IF c \in NAValues THEN NaN ELSE c

\* to_excel writes NaN with na_rep = ""
WriteCell(v) == IF v = NaN THEN "" ELSE v

\* pd.read_excel raises on anything that is not a workbook
ReadRaises(f) == f.kind # "table"

ReadExcel(f) ==
    Frame(f.cols,
          [i \in DOMAIN f.rows |->
              [j \in DOMAIN f.cols |-> ParseCell(f.rows[i][j])]])

\* all(col in existing_data.columns for col in columns) (line 58)
HasAllColumns(d) == \A c \in Range(Header) : c \in Range(d.cols)

\* existing_data[columns] raises KeyError when a column is missing (line 59)
ProjectRaises(d) == \E c \in Range(Header) : c \notin Range(d.cols)

Project(d) ==
    Frame(Header,
          [i \in DOMAIN d.rows |->
              [j \in DOMAIN Header |-> d.rows[i][IndexOf(d.cols, Header[j])]]])

\* pd.concat([a, b], ignore_index=True): the union of the columns in order of
\* appearance, a's rows then b's, NaN where a frame lacks a column (line 60)
Concat(a, b) ==
    LET extra == SelectSeq(b.cols, LAMBDA c : c \notin Range(a.cols))
        cols == a.cols \o extra
        Align(d, row) ==
            [j \in DOMAIN cols |->
                IF cols[j] \in Range(d.cols)
                THEN row[IndexOf(d.cols, cols[j])]
                ELSE NaN]
    IN  Frame(cols,
              [i \in 1..Len(a.rows) |-> Align(a, a.rows[i])]
              \o [i \in 1..Len(b.rows) |-> Align(b, b.rows[i])])

\* updated_data.to_excel(writer, index=False) (lines 68-69)
ToExcel(d) ==
    Workbook(d.cols,
             [i \in DOMAIN d.rows |->
                 [j \in DOMAIN d.cols |-> WriteCell(d.rows[i][j])]],
             FALSE)

\* load_workbook, borders, alignment, widths, bold header, wb.save
\* (lines 72-104): the cell values are written back as they were loaded
FormatWorkbook(f) == [f EXCEPT !.styled = TRUE]

(***************************************************************************)
(* generate_report                                                         *)
(***************************************************************************)
\* response.text.strip(): the text is lead \o body \o trail, lead and trail
\* its leading and trailing whitespace
Strip(resp) == resp.body

\* One call of model.generate_content (lines 36-38).  Nothing catches what it
\* raises, nor what response.text raises on a response without text.
GenerateReport(fields, resp) ==
    IF resp.kind = "ok"
    THEN [raised |-> FALSE, text |-> Strip(resp)]
    ELSE [raised |-> TRUE, text |-> ""]

(***************************************************************************)
(* save_to_excel                                                           *)
(***************************************************************************)
\* pd.Timestamp.now().strftime("%Y-%m-%d %H:%M:%S") (line 47)
DateStr(n) == "2024-01-01 10:00:0" \o ToString(n)

\* new_data (lines 46-53)
NewData(date, fields, report) ==
    Frame(Header,
          << <<date, fields.unit, fields.machine, fields.technician_name,
               fields.issue, report>> >>)

\* updated_data with the except branch keeping nothing, the new record included
UpdatedDataDropsRecord(f, new_data) ==
    IF ~Exists(f) THEN new_data
    ELSE IF ReadRaises(f) THEN Frame(Header, <<>>)
    ELSE LET existing_data == ReadExcel(f)
         IN  IF ~HasAllColumns(existing_data)
             THEN IF ProjectRaises(existing_data)
                  THEN Frame(Header, <<>>)
                  ELSE Concat(Project(existing_data), new_data)
             ELSE Concat(existing_data, new_data)

\* updated_data (lines 55-65)
UpdatedData(f, new_data) ==
    IF ~Exists(f) THEN new_data
    ELSE IF ReadRaises(f) THEN new_data
    ELSE LET existing_data == ReadExcel(f)
         IN  IF ~HasAllColumns(existing_data)
             THEN IF ProjectRaises(existing_data)
                  THEN new_data
                  ELSE Concat(Project(existing_data), new_data)
             ELSE Concat(existing_data, new_data)

\* an incremental append: the writer adds its last row to the workbook it finds
RewrittenMerged(f, workbook) ==
    IF f.kind = "table" /\ f.cols = workbook.cols /\ workbook.rows # <<>>
    THEN [workbook EXCEPT !.rows = Append(f.rows, workbook.rows[Len(workbook.rows)])]
    ELSE workbook

\* The full-file overwrite: a writer leaves its own workbook, whatever the
\* file held (lines 68-69, and line 104 for the restyled workbook)
Rewritten(f, workbook) == workbook

\* How the two writes of save_to_excel can end.  pd.ExcelWriter(mode="w") and
\* wb.save both open the file for writing, which empties it, and write the
\* workbook when they close.
IOOutcomes == {"ok", "write_denied", "write_partial", "save_denied", "save_partial"}

\* save_to_excel with its writes wrapped in an except that only prints
SaveToExcelSwallows(f, date, fields, report, io) ==
    LET updated_data == UpdatedData(f, NewData(date, fields, report))
        written == Rewritten(Corrupt, ToExcel(updated_data))
    IN  CASE io = "ok"            ->
               [raised |-> FALSE,
                file |-> Rewritten(Corrupt, FormatWorkbook(written))]
          [] io = "write_denied"  -> [raised |-> FALSE, file |-> f]
          [] io = "write_partial" -> [raised |-> FALSE, file |-> Corrupt]
          [] io = "save_denied"   -> [raised |-> FALSE, file |-> written]
          [] io = "save_partial"  -> [raised |-> FALSE, file |-> Corrupt]

\* save_to_excel (lines 41-106): whether it raised, and the file it leaves
SaveToExcel(f, date, fields, report, io) ==
    LET updated_data == UpdatedData(f, NewData(date, fields, report))
        written == Rewritten(Corrupt, ToExcel(updated_data))
    IN  CASE io = "ok"            ->
               [raised |-> FALSE,
                file |-> Rewritten(Corrupt, FormatWorkbook(written))]
          [] io = "write_denied"  -> [raised |-> TRUE, file |-> f]
          [] io = "write_partial" -> [raised |-> TRUE, file |-> Corrupt]
          [] io = "save_denied"   -> [raised |-> TRUE, file |-> written]
          [] io = "save_partial"  -> [raised |-> TRUE, file |-> Corrupt]

(***************************************************************************)
(* load_reports                                                            *)
(***************************************************************************)
\* load_reports (lines 109-113)
LoadReports(f) ==
    IF Exists(f)
    THEN IF ReadRaises(f)
         THEN [raised |-> TRUE, cols |-> <<>>, rows |-> <<>>]
         ELSE [raised |-> FALSE] @@ ReadExcel(f)
    ELSE [raised |-> FALSE, cols |-> EmptyReportsHeader, rows |-> <<>>]

(***************************************************************************)
(* The script body: one run per user interaction                           *)
(***************************************************************************)
\* what st.text_input can return (lines 122-126)
Units == {"", "Unit 5"}
Machines == {"", "Compressor A1", "N/A"}
Technicians == {"", "John Doe"}
Issues == {"", "High temperature issue"}

FieldSets ==
    [unit : Units, machine : Machines, technician_name : Technicians, issue : Issues]

NoFields == [unit |-> "", machine |-> "", technician_name |-> "", issue |-> ""]

\* what model.generate_content can do (line 37): fail, or answer with a text
\* (lead \o body \o trail), which may be blank
Failures == {"error", "timeout", "http_status"}

Answer(lead, body, trail) ==
    [kind |-> "ok", lead |-> lead, body |-> body, trail |-> trail]

Responses ==
    {Answer("", "John Doe restored Compressor A1 in Unit 5.", ""),
     Answer(" ", "John Doe restored Compressor A1 in Unit 5.", " "),
     Answer(" ", "", "")}
    \cup [kind : Failures, lead : {""}, body : {""}, trail : {""}]

NoResponse == [kind |-> "not_called", lead |-> "", body |-> "", trail |-> ""]

NoGen == [raised |-> FALSE, text |-> ""]

\* the validation with the issue left out
AllFilledButIssue(fields) ==
    /\ fields.unit # ""
    /\ fields.machine # ""
    /\ fields.technician_name # ""

\* if unit and machine and technician_name and issue (line 130)
AllFilled(fields) ==
    /\ fields.unit # ""
    /\ fields.machine # ""
    /\ fields.technician_name # ""
    /\ fields.issue # ""

\* the handler with a second attempt after a failed generation
ButtonHandlerRetry(f, date, fields, resp, io) ==
    IF AllFilled(fields)
    THEN LET gen == GenerateReport(fields, resp)
         IN  IF gen.raised
             THEN [outcome |-> "generate_raised", genCalls |-> 2, saveCalls |-> 0,
                   gen |-> GenerateReport(fields, resp), file |-> f]
             ELSE LET saved == SaveToExcel(f, date, fields, gen.text, io)
                  IN  [outcome |-> IF saved.raised THEN "save_raised" ELSE "success",
                       genCalls |-> 1, saveCalls |-> 1,
                       gen |-> gen, file |-> saved.file]
    ELSE [outcome |-> "warning", genCalls |-> 0, saveCalls |-> 0,
          gen |-> NoGen, file |-> f]

\* The body of `if st.button("Generate Report")` (lines 129-138): the calls it
\* makes, how it ends and the file it leaves.
ButtonHandler(f, date, fields, resp, io) ==
    IF AllFilled(fields)
    THEN LET gen == GenerateReport(fields, resp)
         IN  IF gen.raised
             THEN [outcome |-> "generate_raised", genCalls |-> 1, saveCalls |-> 0,
                   gen |-> gen, file |-> f]
             ELSE LET saved == SaveToExcel(f, date, fields, gen.text, io)
                  IN  [outcome |-> IF saved.raised THEN "save_raised" ELSE "success",
                       genCalls |-> 1, saveCalls |-> 1,
                       gen |-> gen, file |-> saved.file]
    ELSE [outcome |-> "warning", genCalls |-> 0, saveCalls |-> 0,
          gen |-> NoGen, file |-> f]

NotShown == [shown |-> FALSE, raised |-> FALSE, cols |-> <<>>, rows |-> <<>>]

\* df_reports = load_reports(); st.dataframe(df_reports) (lines 142-143)
Display(f) ==
    LET Shown(d) == [shown |-> TRUE, raised |-> d.raised, cols |-> d.cols, rows |-> d.rows]
    IN  Shown(LoadReports(f))

NoRun ==
    [op |-> "none", fields |-> NoFields, respKind |-> "not_called",
     io |-> "not_called", date |-> "", pre |-> Absent, outcome |-> "none",
     genCalls |-> 0, saveCalls |-> 0, gen |-> NoGen]

\* the files the script can find when it starts: none, an unreadable one, one it
\* wrote itself, one written by the earlier version of the script (no Date,
\* other names), one with a column added by hand
ExistingRow ==
    <<"2023-12-31 09:00:00", "Unit 1", "Pump P2", "Jane Roe", "Seal leak",
      "Jane Roe replaced the seal of Pump P2 in Unit 1.">>

CurrentFile == Workbook(Header, <<ExistingRow>>, TRUE)

LegacyFile ==
    Workbook(EmptyReportsHeader,
             << <<"Unit 1", "Pump P2", "Jane Roe", "Seal leak",
                  "Jane Roe replaced the seal of Pump P2 in Unit 1.">> >>,
             FALSE)

AnnotatedFile ==
    Workbook(Header \o <<"Remarks">>, <<ExistingRow \o <<"checked">> >>, TRUE)

InitFiles == {Absent, Corrupt, CurrentFile, LegacyFile, AnnotatedFile}

IdleProcs ==
    /\ pc = [p \in Procs |-> "idle"]
    /\ rec = [p \in Procs |-> [date |-> "", fields |-> NoFields, report |-> ""]]
    /\ upd = [p \in Procs |-> Frame(<<>>, <<>>)]
    /\ wb = [p \in Procs |-> Absent]
    /\ early = [p \in Procs |-> FALSE]
    /\ clobbered = [p \in Procs |-> FALSE]

Init ==
    /\ file \in InitFiles
    /\ clock = 0
    /\ last = NoRun
    /\ df = NotShown
    /\ fresh = (file = Absent)
    /\ appended = <<>>
    /\ IdleProcs

\* A script run with the button pressed (lines 129-143).  The backend and the
\* disk are consulted only when the run reaches the call that uses them; an
\* exception ends the run before line 142.
Submit ==
    /\ clock < MaxSaves
    /\ \E fields \in FieldSets :
       \E resp \in (IF AllFilled(fields) THEN Responses ELSE {NoResponse}) :
       \E io \in (IF AllFilled(fields) /\ ~GenerateReport(fields, resp).raised
                  THEN IOOutcomes ELSE {"not_called"}) :
       \E date \in {IF io = "not_called" THEN "" ELSE DateStr(clock + 1)} :
       \E run \in {ButtonHandler(file, date, fields, resp, io)} :
          LET ended == run.outcome \in {"generate_raised", "save_raised"}
          IN  /\ file' = run.file
              /\ clock' = clock + run.saveCalls
              /\ last' = [op |-> "submit", fields |-> fields, respKind |-> resp.kind,
                          io |-> io, date |-> date, pre |-> file,
                          outcome |-> run.outcome, genCalls |-> run.genCalls,
                          saveCalls |-> run.saveCalls, gen |-> run.gen]
              /\ df' = IF ended THEN NotShown ELSE Display(run.file)
              /\ fresh' = (fresh /\ run.outcome # "save_raised")
              /\ appended' =
                    IF ~fresh' THEN <<>>
                    ELSE IF run.saveCalls = 1
                         THEN Append(appended,
                                     <<fields.unit, fields.machine,
                                       fields.technician_name, fields.issue,
                                       run.gen.text>>)
                         ELSE appended
    /\ UNCHANGED concVars

\* A script run with the button not pressed (lines 140-143)
Rerun ==
    /\ last' = [NoRun EXCEPT !.op = "rerun", !.pre = file]
    /\ df' = Display(file)
    /\ UNCHANGED <<file, clock, fresh, appended>>
    /\ UNCHANGED concVars

Next == Submit \/ Rerun

Spec == Init /\ [][Next]_vars

(***************************************************************************)
(* Two sessions in save_to_excel at once.  Streamlit runs each session's   *)
(* script in a thread of its own and the file has no lock, so the steps of *)
(* the two calls interleave: the read (lines 55-65), the open and the      *)
(* close of the ExcelWriter (lines 68-69), load_workbook (line 72) and the *)
(* open and the close of wb.save (line 104).                               *)
(***************************************************************************)
SavedFields ==
    [unit |-> "Unit 5", machine |-> "Compressor A1",
     technician_name |-> "John Doe", issue |-> "High temperature issue"]

Calls ==
    {[date |-> DateStr(1), fields |-> SavedFields,
      report |-> "John Doe restored Compressor A1 in Unit 5."],
     [date |-> DateStr(2), fields |-> [SavedFields EXCEPT !.machine = "N/A"],
      report |-> ""]}

InitConc ==
    /\ file \in InitFiles
    /\ clock = 0
    /\ last = NoRun
    /\ df = NotShown
    /\ fresh = FALSE
    /\ appended = <<>>
    /\ pc = [p \in Procs |-> "read"]
    /\ rec \in [Procs -> Calls]
    /\ upd = [p \in Procs |-> Frame(<<>>, <<>>)]
    /\ wb = [p \in Procs |-> Absent]
    /\ early = [p \in Procs |-> FALSE]
    /\ clobbered = [p \in Procs |-> FALSE]

\* the invocations that hold the file open for writing, p aside
OpenWriters(p) == {q \in Procs \ {p} : pc[q] \in {"close", "wbclose"}}

\* What a writer leaves when it closes.  A writer that another one overtook
\* writes from its own offset 0 into a file the other has filled: the result
\* is its own workbook or, when the other's was longer, an unreadable mix.
Closed(p, workbook) ==
    IF clobbered[p] THEN {Rewritten(file, workbook), Corrupt}
    ELSE {Rewritten(file, workbook)}

\* lines 55-65
Read(p) ==
    /\ pc[p] = "read"
    /\ upd' = [upd EXCEPT ![p] =
                  UpdatedData(file, NewData(rec[p].date, rec[p].fields, rec[p].report))]
    /\ early' = [early EXCEPT ![p] = \A q \in Procs \ {p} : pc[q] \in {"read", "open"}]
    /\ pc' = [pc EXCEPT ![p] = "open"]
    /\ UNCHANGED <<file, rec, wb, clobbered>>
    /\ UNCHANGED seqVars

\* line 68: pd.ExcelWriter(EXCEL_FILE, mode="w") opens the file, emptying it
Open(p) ==
    /\ pc[p] = "open"
    /\ file' = Corrupt
    /\ clobbered' = [clobbered EXCEPT ![p] = FALSE]
    /\ pc' = [pc EXCEPT ![p] = "close"]
    /\ UNCHANGED <<rec, upd, wb, early>>
    /\ UNCHANGED seqVars

\* lines 68-69: leaving the with block writes the workbook
Close(p) ==
    /\ pc[p] = "close"
    /\ file' \in Closed(p, ToExcel(upd[p]))
    /\ clobbered' = [q \in Procs |-> clobbered[q] \/ q \in OpenWriters(p)]
    /\ pc' = [pc EXCEPT ![p] = "loadwb"]
    /\ UNCHANGED <<rec, upd, wb, early>>
    /\ UNCHANGED seqVars

\* line 72: load_workbook raises on a file that is no workbook
LoadWb(p) ==
    /\ pc[p] = "loadwb"
    /\ IF file.kind = "table"
       THEN /\ wb' = [wb EXCEPT ![p] = file]
            /\ pc' = [pc EXCEPT ![p] = "wbopen"]
       ELSE /\ wb' = wb
            /\ pc' = [pc EXCEPT ![p] = "raised"]
    /\ UNCHANGED <<file, rec, upd, early, clobbered>>
    /\ UNCHANGED seqVars

\* line 104: wb.save opens the file, emptying it
WbOpen(p) ==
    /\ pc[p] = "wbopen"
    /\ file' = Corrupt
    /\ clobbered' = [clobbered EXCEPT ![p] = FALSE]
    /\ pc' = [pc EXCEPT ![p] = "wbclose"]
    /\ UNCHANGED <<rec, upd, wb, early>>
    /\ UNCHANGED seqVars

\* lines 104-106: wb.save writes the restyled workbook and the call returns
WbClose(p) ==
    /\ pc[p] = "wbclose"
    /\ file' \in Closed(p, FormatWorkbook(wb[p]))
    /\ clobbered' = [q \in Procs |-> clobbered[q] \/ q \in OpenWriters(p)]
    /\ pc' = [pc EXCEPT ![p] = "done"]
    /\ UNCHANGED <<rec, upd, wb, early>>
    /\ UNCHANGED seqVars

NextConc ==
    \E p \in Procs :
        Read(p) \/ Open(p) \/ Close(p) \/ LoadWb(p) \/ WbOpen(p) \/ WbClose(p)

SpecConc == InitConc /\ [][NextConc]_vars

(***************************************************************************)
(* Properties                                                              *)
(***************************************************************************)
Submitted == last.op = "submit"

SomeFieldEmpty ==
    \/ last.fields.unit = ""
    \/ last.fields.machine = ""
    \/ last.fields.technician_name = ""
    \/ last.fields.issue = ""

\* the value of column c in row i of a frame or a workbook
Cell(d, i, c) == d.rows[i][IndexOf(d.cols, c)]

\* the row save_to_excel builds from the last submission
LastRecord ==
    <<last.date, last.fields.unit, last.fields.machine,
      last.fields.technician_name, last.fields.issue, last.gen.text>>

\* the fallback report of the specification
Fallback(fields) ==
    "Issue reported and solved by " \o fields.technician_name \o ": " \o fields.issue

\* C1: when the text-generation call fails, generate_report does not raise and
\* returns "Issue reported and solved by {technicianName}: {issue}".
C1_FallbackOnFailure ==
    (Submitted /\ ~SomeFieldEmpty /\ last.respKind \in Failures)
        => (~last.gen.raised /\ last.gen.text = Fallback(last.fields))

\* C2: a submission with an empty field ends in the warning, calls neither
\* generate_report nor save_to_excel, and leaves the file as it was.
C2_EmptyFieldRejected ==
    (Submitted /\ SomeFieldEmpty)
        => /\ last.outcome = "warning"
           /\ last.genCalls = 0
           /\ last.saveCalls = 0
           /\ file = last.pre

C2_Witness ==
    /\ Submitted
    /\ last.fields.issue = ""
    /\ last.fields.unit # "" /\ last.fields.machine # ""
    /\ last.fields.technician_name # ""
    /\ last.outcome = "warning"
    /\ file = CurrentFile

\* C3: from an absent file, after n >= 1 save_to_excel calls load_reports
\* returns n rows, in order, whose Unit, Machine, Technician Name, Issue and
\* Generated Report are the values passed to the calls.
C3_LoadReturnsAppended ==
    (fresh /\ Len(appended) >= 1)
        => LET d == LoadReports(file)
           IN  /\ ~d.raised
               /\ Len(d.rows) = Len(appended)
               /\ \A i \in DOMAIN appended :
                      <<Cell(d, i, "Unit"), Cell(d, i, "Machine"),
                        Cell(d, i, "Technician Name"), Cell(d, i, "Issue"),
                        Cell(d, i, "Generated Report")>> = appended[i]

\* C4: on an existing file that cannot be read, save_to_excel completes and
\* the file then holds exactly one record, the new one.
C4_UnreadableFileReplaced ==
    (Submitted /\ last.pre.kind = "corrupt" /\ last.io = "ok")
        => /\ last.outcome = "success"
           /\ file.kind = "table"
           /\ file.cols = Header
           /\ file.rows = <<LastRecord>>
           /\ df.shown /\ ~df.raised /\ Len(df.rows) = 1

C4_Witness ==
    /\ Submitted
    /\ last.pre.kind = "corrupt"
    /\ last.outcome = "success"
    /\ file.rows = <<LastRecord>>

\* C5: the rows load_reports returned before a save_to_excel call are an
\* unchanged prefix of the rows it returns after the call, whatever the
\* columns of the existing file.
C5_AppendOnly ==
    (Submitted /\ last.outcome = "success" /\ last.pre.kind = "table")
        => LET before == LoadReports(last.pre)
               after == LoadReports(file)
           IN  /\ ~after.raised
               /\ Len(before.rows) <= Len(after.rows)
               /\ \A i \in DOMAIN before.rows : \A c \in Range(before.cols) :
                      /\ c \in Range(after.cols)
                      /\ Cell(after, i, c) = Cell(before, i, c)

\* C6: after every completed save_to_excel call the header of the file is
\* exactly Date, Unit, Machine, Technician Name, Issue, Generated Report.
C6_HeaderIsFixed ==
    (Submitted /\ last.outcome = "success")
        => (file.kind = "table" /\ file.cols = Header)

\* C7: when the file does not exist load_reports returns no rows under the
\* header save_to_excel writes.
C7_EmptyLogHasFixedHeader ==
    (df.shown /\ file.kind = "absent")
        => (~df.raised /\ df.rows = <<>> /\ df.cols = Header)

\* the rows of a workbook but the last
Front(rows) == SubSeq(rows, 1, Len(rows) - 1)

\* C9: a submission with the four fields filled makes one generation attempt;
\* save_to_excel is called once and only when that attempt returned, and the
\* file then gains one row, the last, which carries the returned report; when
\* the attempt did not return, nothing is written.
C9_OneAttemptOneRecord ==
    (Submitted /\ ~SomeFieldEmpty)
        => /\ last.genCalls = 1
           /\ last.saveCalls = (IF last.gen.raised THEN 0 ELSE 1)
           /\ last.gen.raised =>
                 (last.outcome = "generate_raised" /\ file = last.pre)
           /\ last.outcome = "success" =>
                 /\ file.kind = "table"
                 /\ Len(file.rows) >= 1
                 /\ Len(file.rows) <= Len(last.pre.rows) + 1
                 /\ Cell(file, Len(file.rows), "Generated Report") = last.gen.text
                 /\ Cell(file, Len(file.rows), "Unit") = last.fields.unit
                 /\ Cell(file, Len(file.rows), "Machine") = last.fields.machine
                 /\ Cell(file, Len(file.rows), "Technician Name") =
                        last.fields.technician_name
                 /\ Cell(file, Len(file.rows), "Issue") = last.fields.issue
                 /\ \A i \in DOMAIN Front(file.rows) :
                        \A c \in Range(last.pre.cols) :
                            Cell(file, i, c) = WriteCell(ParseCell(Cell(last.pre, i, c)))

C9_Witness ==
    /\ Submitted /\ ~SomeFieldEmpty
    /\ last.outcome = "success"
    /\ last.pre = CurrentFile
    /\ Len(file.rows) = 2
    /\ Cell(file, 2, "Generated Report") = "John Doe restored Compressor A1 in Unit 5."

\* C10: a failure of either write of save_to_excel reaches the caller, and the
\* submission is not reported as saved; a failed read of the existing file is
\* recovered inside save_to_excel.
C10_WriteFailurePropagates ==
    /\ (Submitted /\ last.io \in IOOutcomes \ {"ok"})
          => (last.outcome = "save_raised" /\ ~df.shown)
    /\ (Submitted /\ last.io = "ok" /\ last.pre.kind = "corrupt")
          => last.outcome = "success"

C10_Witness ==
    /\ Submitted
    /\ last.io = "write_partial"
    /\ last.saveCalls = 1
    /\ last.outcome = "save_raised"
    /\ file = Corrupt

BothDone == \A p \in Procs : pc[p] = "done"

BothEarly == \A p \in Procs : early[p]

\* C8: when two save_to_excel calls both read the file before either begins to
\* rewrite it and both return, the file holds the rows they read and one new
\* record only: the other call's record is lost, without an error.
C8_RaceLosesOneRecord ==
    (BothDone /\ BothEarly)
        => /\ \A p, q \in Procs : Front(upd[p].rows) = Front(upd[q].rows)
           /\ file.kind # "absent"
           /\ file.kind = "table" =>
                 \E p \in Procs : file.rows = ToExcel(upd[p]).rows

C8_Witness ==
    /\ BothDone /\ BothEarly
    /\ rec[1] # rec[2]
    /\ file.kind = "table"
    /\ Len(file.rows) = 2
    /\ Len(upd[1].rows) = 2 /\ Len(upd[2].rows) = 2
    /\ file.rows[1] = ExistingRow

====
